---- MODULE Spec2Model ----
(***************************************************************************)
(* createResponsiveStateReducer.js: the reducer factory of                 *)
(* redux-responsive and the reducer it returns, with the breakpoint        *)
(* objects it captures by reference.                                       *)
(*                                                                         *)
(* A JavaScript object is a sequence of [key, value] entries in insertion  *)
(* order.  The breakpoint objects live in `heap`: the module-level         *)
(* defaultBreakpoints and one config object owned by the caller.  The      *)
(* factory may be called any number of times; the reducer of one of these  *)
(* calls is the one the store is created with (`reducer`, `state`).  Every *)
(* factory call of a behaviour is handed the same first argument `arg`, so *)
(* that all of them write to the object the store's reducer captures;      *)
(* calls on unrelated objects touch nothing the store can read.            *)
(***************************************************************************)
EXTENDS Integers, Sequences, FiniteSets, TLC

VARIABLES
    heap,            \* ref -> breakpoints object (defaultBreakpoints, config)
    arg,             \* the factory's first argument: "null" or "config"
    reducer,         \* closure of the store's reducer (lines 181-192), or NoReducer
    state,           \* the store's state: undefined, null or a responsive state
    call,            \* the last reducer invocation: the action's type, typeof the
                     \* state handed in, and the matchMedia if it was read
    calls,           \* queries handed to matchMedia by the last invocation, in order
    responsiveState  \* the local `responsiveState` of the last invocation (line 208)

vars == <<heap, arg, reducer, state, call, calls, responsiveState>>

---------------------------------------------------------------------------
(* Bounds *)

\* queries a supplied evaluator reports as matching
MaxMatches == 2

---------------------------------------------------------------------------
(* JavaScript values *)

\* the value `undefined` of a string-valued option or variable
undefined == "undefined"

Num(n) == [type |-> "number", n |-> n, inf |-> FALSE]
Str(n) == [type |-> "string", n |-> n, inf |-> FALSE]
Infinity == [type |-> "number", n |-> 0, inf |-> TRUE]

typeof(v) == v.type

\* ToBoolean of a breakpoint value: 0 and '' are falsy
Truthy(v) == v.inf \/ v.n # 0

\* valueA >= valueB on two values of the same type
Geq(valueA, valueB) ==
    \/ valueA.inf
    \/ ~valueB.inf /\ valueA.n >= valueB.n

\* the states a store can hold before the reducer has produced one
undefinedState == [typeof |-> "undefined"]
nullState == [typeof |-> "null"]

Falsy(s) == s \in {undefinedState, nullState}

---------------------------------------------------------------------------
(* Objects as entry sequences *)

Keys(obj) == {obj[i].key : i \in DOMAIN obj}

Has(obj, k) == k \in Keys(obj)

Get(obj, k) == obj[CHOOSE i \in DOMAIN obj : obj[i].key = k].value

\* obj[k] = v : overwrite in place, or append a new last entry
Put(obj, k, v) ==
    IF Has(obj, k)
    THEN [i \in DOMAIN obj |->
            IF obj[i].key = k THEN [key |-> k, value |-> v] ELSE obj[i]]
    ELSE Append(obj, [key |-> k, value |-> v])

---------------------------------------------------------------------------
(* Program constants *)

\* line 6: the imported action type
CALCULATE_RESPONSIVE_STATE == "redux-responsive/CALCULATE_RESPONSIVE_STATE"

defaultBreakpoints ==
    << [key |-> "extraSmall", value |-> Num(480)],
       [key |-> "small", value |-> Num(768)],
       [key |-> "medium", value |-> Num(992)],
       [key |-> "large", value |-> Num(1200)] >>

defaultMediaType == "infinity"

\* null
defaultOrientation == "null"

---------------------------------------------------------------------------
(* getOrderMap *)

\* the comparator handed to sort (lines 29-45)
compare(valueA, valueB) ==
    IF typeof(valueA) = "number" /\ typeof(valueB) = "string" THEN -1
    ELSE IF typeof(valueB) = "number" /\ typeof(valueA) = "string" THEN 1
    ELSE IF Geq(valueA, valueB) THEN 1 ELSE -1

\* The orders Array.prototype.sort can leave the keys S of bps in.  The
\* comparator answers 1 both ways on equal values, so the order of equal
\* values is up to the engine: every order of them is possible.
RECURSIVE Sorted(_, _)
Sorted(bps, S) ==
    IF S = {} THEN {<<>>}
    ELSE UNION { { <<a>> \o rest : rest \in Sorted(bps, S \ {a}) } :
                 a \in { first \in S : \A b \in S \ {first} :
                            compare(Get(bps, b), Get(bps, first)) = 1 } }

\* keys.indexOf(mediaType)
indexOf(keys, mediaType) == CHOOSE i \in DOMAIN keys : keys[i] = mediaType

\* getOrderMap with each name ranked by the number of values sorting strictly
\* before its own: equal values share a rank
getOrderMapSharedRanks(bps) ==
    { [mediaType \in Keys(bps) |->
         Cardinality({k \in Keys(bps) :
            compare(Get(bps, k), Get(bps, mediaType)) = -1})] }

\* the order maps getOrderMap(bps) can return: name -> 0-based index in the
\* sorted keys
getOrderMap(bps) ==
    { [mediaType \in Keys(bps) |-> indexOf(keys, mediaType) - 1] :
        keys \in Sorted(bps, Keys(bps)) }

---------------------------------------------------------------------------
(* getLessThan, getIs, getGreaterThan *)

\* breakpointOrder[currentMediaType] < n, false when the lookup is undefined
OrderLess(breakpointOrder, currentMediaType, n) ==
    /\ currentMediaType \in DOMAIN breakpointOrder
    /\ breakpointOrder[currentMediaType] < n

OrderGreater(breakpointOrder, currentMediaType, n) ==
    /\ currentMediaType \in DOMAIN breakpointOrder
    /\ breakpointOrder[currentMediaType] > n

\* getLessThan with the truthiness guard on the current media type's rank
getLessThanGuardCurrent(currentMediaType, breakpointOrder) ==
    [mediaType \in DOMAIN breakpointOrder |->
        IF /\ currentMediaType \in DOMAIN breakpointOrder
           /\ breakpointOrder[currentMediaType] # 0
        THEN OrderLess(breakpointOrder, currentMediaType,
                       breakpointOrder[mediaType])
        ELSE FALSE]

\* lines 68-82.  transform iterates the order map, so `breakpoint` is the
\* entry's rank: typeof breakpoint is 'number' for every entry, and
\* breakpointOrder[mediaType] is truthy unless that rank is 0.
getLessThan(currentMediaType, breakpointOrder) ==
    [mediaType \in DOMAIN breakpointOrder |->
        IF breakpointOrder[mediaType] # 0
        THEN OrderLess(breakpointOrder, currentMediaType,
                       breakpointOrder[mediaType])
        ELSE FALSE]

\* lines 92-103.  transform iterates the breakpoints object itself.
getIs(currentMediaType, breakpoints) ==
    [mediaType \in Keys(breakpoints) |->
        IF /\ typeof(Get(breakpoints, mediaType)) = "number"
           /\ Truthy(Get(breakpoints, mediaType))
        THEN mediaType = currentMediaType
        ELSE FALSE]

\* getGreaterThan comparing with >= instead of >
getGreaterThanOrEqual(currentMediaType, breakpointOrder) ==
    [mediaType \in DOMAIN breakpointOrder |->
        /\ currentMediaType \in DOMAIN breakpointOrder
        /\ breakpointOrder[currentMediaType] >= breakpointOrder[mediaType]]

\* lines 114-128.  As in getLessThan, `breakpoint` is a rank, always a number.
getGreaterThan(currentMediaType, breakpointOrder) ==
    [mediaType \in DOMAIN breakpointOrder |->
        OrderGreater(breakpointOrder, currentMediaType,
                     breakpointOrder[mediaType])]

---------------------------------------------------------------------------
(* matchMedia, getMediaType, getOrientation *)

WidthQuery(k) == [feature |-> "width", of |-> k]
OrientationQuery(o) == [feature |-> "orientation", of |-> o]

\* an event's matchMedia: absent, or a function answering `matches` for the
\* queries in `matches`
noMatchMedia == [defined |-> FALSE, matches |-> {}]
MatchMedia(M) == [defined |-> TRUE, matches |-> M]

\* lodash reduce over an object: a left fold over its entries in key order,
\* a later matching entry replacing the result.  Returns the result and the
\* queries evaluated.
RECURSIVE reduce(_, _, _, _)
reduce(mediaQueries, matchMedia, result, i) ==
    IF i > Len(mediaQueries) THEN [result |-> result, calls |-> <<>>]
    ELSE LET query == mediaQueries[i].value
             type == mediaQueries[i].key
             next == IF query \in matchMedia.matches THEN type ELSE result
             rest == reduce(mediaQueries, matchMedia, next, i + 1)
         IN  [result |-> rest.result, calls |-> <<query>> \o rest.calls]

Reverse(seq) == [i \in DOMAIN seq |-> seq[Len(seq) + 1 - i]]

\* getMediaType keeping the first matching query instead of the last
getMediaTypeFirstMatch(matchMedia, mediaQueries, infinityMediaType) ==
    IF ~matchMedia.defined
    THEN [result |-> infinityMediaType, calls |-> <<>>]
    ELSE reduce(Reverse(mediaQueries), matchMedia, infinityMediaType, 1)

\* getMediaType falling back to the default 'infinity' instead of the
\* configured infinity key when there is no matchMedia
getMediaTypeDefaultKey(matchMedia, mediaQueries, infinityMediaType) ==
    IF ~matchMedia.defined
    THEN [result |-> defaultMediaType, calls |-> <<>>]
    ELSE reduce(mediaQueries, matchMedia, infinityMediaType, 1)

\* lines 138-151
getMediaType(matchMedia, mediaQueries, infinityMediaType) ==
    IF ~matchMedia.defined
    THEN [result |-> infinityMediaType, calls |-> <<>>]
    ELSE reduce(mediaQueries, matchMedia, infinityMediaType, 1)

orientationQueries ==
    << [key |-> "portrait", value |-> OrientationQuery("portrait")],
       [key |-> "landscape", value |-> OrientationQuery("landscape")] >>

\* lines 160-178
getOrientation(matchMedia) ==
    IF ~matchMedia.defined
    THEN [result |-> defaultOrientation, calls |-> <<>>]
    ELSE reduce(orientationQueries, matchMedia, defaultOrientation, 1)

\* MediaQuery.asObject(breakpoints): one query per breakpoint, keyed by the
\* breakpoint's name, in the order the breakpoints were declared
asObject(breakpoints) ==
    [i \in DOMAIN breakpoints |->
        [key |-> breakpoints[i].key, value |-> WidthQuery(breakpoints[i].key)]]

---------------------------------------------------------------------------
(* The reducer factory (lines 181-192) *)

NoReducer == [created |-> FALSE]

\* the options object; an absent option is undefined
Options ==
    [initialMediaType : {undefined, "small"},
     infinity : {undefined, "huge"},
     extraFields : {"default", "override"}]

\* line 181: infinity = defaultMediaType
InfinityKey(options) ==
    IF options.infinity = undefined THEN defaultMediaType ELSE options.infinity

\* lines 183-185: the object `breakpoints` names after the null check
Breakpoints(a) == IF a = "null" THEN "defaultBreakpoints" ELSE a

\* line 188: breakpoints[infinity] = Infinity, on the object itself
Inject(h, a, options) ==
    [h EXCEPT ![Breakpoints(a)] = Put(@, InfinityKey(options), Infinity)]

\* the reducers the call can return: what the closure captures
Closures(h, a, options) ==
    LET breakpoints == Inject(h, a, options)[Breakpoints(a)]
    IN  { [created |-> TRUE,
           breakpoints |-> Breakpoints(a),
           initialMediaType |-> options.initialMediaType,
           infinity |-> InfinityKey(options),
           extraFields |-> options.extraFields,
           mediaQueries |-> asObject(breakpoints),
           mediaOrdering |-> mediaOrdering] :
          mediaOrdering \in getOrderMap(breakpoints) }

---------------------------------------------------------------------------
(* The reducer (lines 195-226) *)

\* the extraFields option: the default () => ({}), or a function that
\* returns {mediaType: 'override'}
extraFields(which, rs) ==
    IF which = "default" THEN <<>>
    ELSE [f \in {"mediaType"} |-> "override"]

\* {...responsiveState, ...extra}
Spread(rs, extra) ==
    [f \in DOMAIN rs \cup DOMAIN extra |->
        IF f \in DOMAIN extra THEN extra[f] ELSE rs[f]]

\* line 197 recalculating on every action
ShouldRecalculateAlways(st, type) == TRUE

\* line 197 without the check for an undefined state
ShouldRecalculateTypeOnly(st, type) == type = CALCULATE_RESPONSIVE_STATE

\* line 197
ShouldRecalculate(st, type) ==
    type = CALCULATE_RESPONSIVE_STATE \/ st = undefinedState

\* line 199 testing typeof state === 'undefined' instead of !state
UseInitialUndefinedOnly(st, initialMediaType) ==
    st = undefinedState /\ initialMediaType # undefined

\* line 199: !state && initialMediaType
UseInitial(st, initialMediaType) ==
    Falsy(st) /\ initialMediaType # undefined

Reduce(r, h, st, action) ==
    IF ShouldRecalculate(st, action.type)
    THEN LET mt == IF UseInitial(st, r.initialMediaType)
                   THEN [result |-> r.initialMediaType, calls |-> <<>>]
                   ELSE getMediaType(action.matchMedia, r.mediaQueries,
                                     r.infinity)
             mediaType == mt.result
             orientation == getOrientation(action.matchMedia)
             rs == [_responsiveState |-> TRUE,
                    lessThan |-> getLessThan(mediaType, r.mediaOrdering),
                    greaterThan |-> getGreaterThan(mediaType, r.mediaOrdering),
                    is |-> getIs(mediaType, h[r.breakpoints]),
                    mediaType |-> mediaType,
                    orientation |-> orientation.result,
                    breakpoints |-> r.breakpoints]
         IN  [state |-> Spread(rs, extraFields(r.extraFields, rs)),
              calls |-> mt.calls \o orientation.calls,
              responsiveState |-> rs]
    ELSE [state |-> st, calls |-> <<>>, responsiveState |-> undefinedState]

---------------------------------------------------------------------------
(* Inputs *)

\* values a caller gives a breakpoint: 0, a width, and a custom query string
Values == {Num(0), Num(768), Str(1)}

\* the caller's config object: {small: 768, large: w}.  With w = 0 the
\* declared order is not the ascending one, with w = 768 two widths tie;
\* distinct ascending widths are those of defaultBreakpoints.
Configs ==
    { << [key |-> "small", value |-> Num(768)],
         [key |-> "large", value |-> w] >> : w \in Values }

Types == {CALCULATE_RESPONSIVE_STATE, "@@redux/INIT"}

\* the breakpoints whose width query a matchMedia is made to match
Probed == {"small", "large", "infinity", "huge"}

\* the queries of the reducer r that a matchMedia is made to match
Queries(r) ==
    {r.mediaQueries[i].value :
        i \in {j \in DOMAIN r.mediaQueries : r.mediaQueries[j].key \in Probed}}
        \cup {orientationQueries[i].value : i \in DOMAIN orientationQueries}

\* the matchMedia an action can carry
Evaluators(r) ==
    IF ~r.created THEN {}
    ELSE {noMatchMedia} \cup
         { MatchMedia(M) :
             M \in {M \in SUBSET Queries(r) : Cardinality(M) <= MaxMatches} }

TypeofState(st) ==
    IF st = undefinedState THEN "undefined"
    ELSE IF st = nullState THEN "null" ELSE "object"

NoCall == [type |-> "none", matchMedia |-> noMatchMedia, state |-> "none"]

---------------------------------------------------------------------------
(* The state machine *)

Init ==
    /\ \/ /\ arg = "null"
          /\ heap = [defaultBreakpoints |-> defaultBreakpoints, config |-> <<>>]
       \/ /\ arg = "config"
          /\ heap \in { [defaultBreakpoints |-> defaultBreakpoints,
                          config |-> c] : c \in Configs }
    /\ reducer = NoReducer
    /\ state \in {undefinedState, nullState}
    /\ call = NoCall
    /\ calls = <<>>
    /\ responsiveState = undefinedState

\* the factory call whose reducer the store is created with
CreateStoreReducer(options) ==
    /\ reducer = NoReducer
    /\ heap' = Inject(heap, arg, options)
    /\ reducer' \in Closures(heap, arg, options)
    /\ UNCHANGED <<arg, state, call, calls, responsiveState>>

\* any other factory call: its reducer serves another store, and what this
\* store sees of the call is line 188's write to the shared object
CreateOtherReducer(options) ==
    /\ Closures(heap, arg, options) # {}
    /\ heap' = Inject(heap, arg, options)
    /\ UNCHANGED <<arg, reducer, state, call, calls, responsiveState>>

\* the store hands its state and an action to its reducer
Dispatch(type, matchMedia) ==
    /\ reducer.created
    /\ LET out == Reduce(reducer, heap, state,
                         [type |-> type, matchMedia |-> matchMedia])
       IN  /\ state' = out.state
           /\ calls' = out.calls
           /\ responsiveState' = out.responsiveState
    /\ call' = [type |-> type,
                matchMedia |-> IF ShouldRecalculate(state, type)
                               THEN matchMedia ELSE noMatchMedia,
                state |-> TypeofState(state)]
    /\ UNCHANGED <<heap, arg, reducer>>

Next ==
    \/ \E options \in Options : CreateStoreReducer(options)
    \/ \E options \in Options : CreateOtherReducer(options)
    \/ \E type \in Types, matchMedia \in Evaluators(reducer) :
          Dispatch(type, matchMedia)

Spec == Init /\ [][Next]_vars

---------------------------------------------------------------------------
(* Vocabulary of the properties *)

\* the last reducer invocation took the branch of line 197
Recalculated == responsiveState # undefinedState

\* the store holds a state the reducer produced
Produced == state \notin {undefinedState, nullState}

\* the last invocation was handed a falsy state by a reducer with an
\* initialMediaType
InitialApplies ==
    call.state \in {"undefined", "null"} /\ reducer.initialMediaType # undefined

Fields ==
    {"_responsiveState", "mediaType", "orientation", "lessThan",
     "greaterThan", "is", "breakpoints"}

\* the names of the reducer's config as of its construction
ConfigNames == DOMAIN reducer.mediaOrdering

ConfigValue(k) == Get(heap[reducer.breakpoints], k)

\* every breakpoint the reducer was configured with is a positive number
PositiveNumbers ==
    \A k \in ConfigNames :
        typeof(ConfigValue(k)) = "number" /\ Truthy(ConfigValue(k))

\* ... and a finite one, but for the entry under the reducer's infinity key
PositiveWidths ==
    /\ PositiveNumbers
    /\ \A k \in ConfigNames \ {reducer.infinity} : ~ConfigValue(k).inf

DefaultOptions ==
    /\ reducer.initialMediaType = undefined
    /\ reducer.infinity = defaultMediaType
    /\ reducer.extraFields = "default"

\* positions in the query set, in iteration order, whose query matches
Matching ==
    {i \in DOMAIN reducer.mediaQueries :
        reducer.mediaQueries[i].value \in call.matchMedia.matches}

Last(S) == CHOOSE i \in S : \A j \in S : j <= i

WidthCalls ==
    {i \in DOMAIN calls : calls[i].feature = "width"}

---------------------------------------------------------------------------
(* C1 *)

\* C1: a reducer invocation with a state that is not undefined and an
\* action whose type is not CALCULATE_RESPONSIVE_STATE returns the very state
\* it was given, whatever matchMedia the action carries.  (Every Dispatch
\* step records its action's type in call'; a factory call leaves both call
\* and state alone.)
C1_OtherActionsReturnState ==
    [][ (/\ state # undefinedState
         /\ call'.type \in Types \ {CALCULATE_RESPONSIVE_STATE})
        => state' = state ]_vars

\* an action of another type has been handed to the reducer together with a
\* responsive state
C1_Witness ==
    /\ call.type = "@@redux/INIT"
    /\ call.state = "object"
    /\ Produced

---------------------------------------------------------------------------
(* C2 *)

\* C2: an invocation with state undefined recalculates whatever the action's
\* type; after any invocation the state is not undefined, and with the
\* default extraFields every produced state has _responsiveState = true and
\* the fields mediaType, orientation, lessThan, greaterThan, is, breakpoints.
C2_UndefinedStateRecalculates ==
    call.type # "none" =>
        /\ state # undefinedState
        /\ call.state = "undefined" => Recalculated /\ Produced
        /\ (Produced /\ reducer.extraFields = "default") =>
              /\ Fields \subseteq DOMAIN state
              /\ state._responsiveState = TRUE

\* the first invocation, with undefined state, carried another action type
C2_Witness ==
    /\ call.type = "@@redux/INIT"
    /\ call.state = "undefined"
    /\ reducer.extraFields = "default"
    /\ Produced

---------------------------------------------------------------------------
(* C3 *)

\* C3: on a recalculation mediaType is the initialMediaType option, and no
\* width query is evaluated, exactly when the state handed in is falsy and
\* the option was supplied; otherwise (in particular whenever the state is
\* already a responsive state) it is what getMediaType resolves from the
\* action's matchMedia, every width query being evaluated when there is a
\* matchMedia, and the option plays no part.
C3_InitialMediaTypeOnlyOnFalsyState ==
    Recalculated =>
        LET resolved == getMediaType(call.matchMedia, reducer.mediaQueries,
                                     reducer.infinity)
            mediaType == IF InitialApplies THEN reducer.initialMediaType
                         ELSE resolved.result
        IN  /\ responsiveState.mediaType = mediaType
            /\ reducer.extraFields = "default" => state.mediaType = mediaType
            /\ InitialApplies => WidthCalls = {}
            /\ (~InitialApplies /\ call.matchMedia.defined) =>
                  Cardinality(WidthCalls) = Len(reducer.mediaQueries)

\* a recalculation with a responsive state at hand resolved a media type
\* other than the supplied initialMediaType
C3_Witness ==
    /\ Recalculated
    /\ call.state = "object"
    /\ call.type = CALCULATE_RESPONSIVE_STATE
    /\ reducer.initialMediaType = "small"
    /\ call.matchMedia.defined
    /\ responsiveState.mediaType = "large"

---------------------------------------------------------------------------
(* C4 *)

\* C4: a recalculation whose action carries no matchMedia, and to which the
\* initialMediaType override does not apply, gives mediaType the configured
\* infinity key and orientation null, and evaluates no query.
C4_NoMatchMediaFallsBack ==
    (Recalculated /\ ~call.matchMedia.defined /\ ~InitialApplies) =>
        /\ responsiveState.mediaType = reducer.infinity
        /\ responsiveState.orientation = "null"
        /\ calls = <<>>
        /\ reducer.extraFields = "default" =>
              /\ state.mediaType = reducer.infinity
              /\ state.orientation = "null"

\* a reducer with infinity: 'huge' and an initialMediaType recalculated a
\* responsive state without matchMedia
C4_Witness ==
    /\ Recalculated
    /\ ~call.matchMedia.defined
    /\ call.state = "object"
    /\ reducer.initialMediaType = "small"
    /\ reducer.infinity = "huge"
    /\ state.mediaType = "huge"

---------------------------------------------------------------------------
(* C5 *)

\* the case of C5: default options, positive widths, no matchMedia
C5_Case ==
    /\ Recalculated
    /\ ~call.matchMedia.defined
    /\ DefaultOptions
    /\ PositiveWidths

\* C5 as stated: `is` and lessThan are false for every name, the infinity
\* key included; greaterThan is true for every configured name and false
\* for the infinity key.
C5_AsStated ==
    C5_Case =>
        /\ \A k \in DOMAIN state.is : state.is[k] = FALSE
        /\ \A k \in DOMAIN state.lessThan : state.lessThan[k] = FALSE
        /\ \A k \in DOMAIN state.greaterThan :
              state.greaterThan[k] = (k # reducer.infinity)

\* C5 (amended): `is` is true for the infinity key, which is the media type,
\* and false for every other name; lessThan is false for every name;
\* greaterThan is true for every configured name and false for the infinity
\* key.
C5_IsTrueForInfinity ==
    C5_Case =>
        /\ state.mediaType = reducer.infinity
        /\ ConfigNames \subseteq DOMAIN state.is
        /\ \A k \in DOMAIN state.is : state.is[k] = (k = reducer.infinity)
        /\ DOMAIN state.lessThan = ConfigNames
        /\ \A k \in DOMAIN state.lessThan : state.lessThan[k] = FALSE
        /\ DOMAIN state.greaterThan = ConfigNames
        /\ \A k \in DOMAIN state.greaterThan :
              state.greaterThan[k] = (k # reducer.infinity)

\* the caller's {small: 768, large: 768} with default options, recalculated
\* without matchMedia
C5_Witness ==
    /\ C5_Case
    /\ arg = "config"
    /\ state.is["infinity"]
    /\ state.greaterThan["small"]

---------------------------------------------------------------------------
(* C6 *)

\* the entries of a breakpoints object that hold Infinity
InfinityEntries(obj) == {k \in Keys(obj) : Get(obj, k).inf}

\* C6: every state the store's reducer produces has, as `breakpoints` and as
\* the keys of `is`, the reducer's config as of its construction, holding
\* exactly one Infinity entry, under the reducer's own infinity key; and `is`,
\* lessThan and greaterThan have the same keys.
C6_ConfigWrittenOnce ==
    Produced =>
        /\ Keys(heap[state.breakpoints]) = ConfigNames
        /\ DOMAIN state.is = ConfigNames
        /\ InfinityEntries(heap[state.breakpoints]) = {reducer.infinity}
        /\ DOMAIN state.is = DOMAIN state.lessThan
        /\ DOMAIN state.is = DOMAIN state.greaterThan

---------------------------------------------------------------------------
(* C7 *)

\* C7: with a matchMedia, the media type resolved is the name of the last
\* query, in the query set's iteration order, that matches, and the infinity
\* key when none matches.
C7_LastMatchWins ==
    (Recalculated /\ call.matchMedia.defined /\ ~InitialApplies) =>
        responsiveState.mediaType =
            IF Matching = {} THEN reducer.infinity
            ELSE reducer.mediaQueries[Last(Matching)].key

\* two queries matched, and the later one, which ranks lower in the order
\* map, was returned
C7_Witness ==
    /\ Recalculated
    /\ call.matchMedia.defined
    /\ ~InitialApplies
    /\ Cardinality(Matching) = 2
    /\ \E i \in Matching, j \in Matching :
          /\ i < j
          /\ responsiveState.mediaType = reducer.mediaQueries[j].key
          /\ reducer.mediaOrdering[reducer.mediaQueries[j].key]
                < reducer.mediaOrdering[reducer.mediaQueries[i].key]

---------------------------------------------------------------------------
(* C8 *)

\* the current media type has rank 0 in the order map
C8_Case ==
    /\ Recalculated
    /\ responsiveState.mediaType \in ConfigNames
    /\ reducer.mediaOrdering[responsiveState.mediaType] = 0

\* C8 as stated: when the current media type's rank is 0, every entry of
\* lessThan is false.
C8_AsStated ==
    C8_Case => \A k \in ConfigNames : responsiveState.lessThan[k] = FALSE

\* C8 (amended): when the current media type's rank is 0, the lessThan entry
\* of the current media type is false and the entry of every other
\* breakpoint, whose rank is above 0, is true: the truthiness guard is on the
\* entry's rank and only forces the rank-0 entry false.
C8_RankZeroLessThanAllOthers ==
    C8_Case =>
        /\ DOMAIN responsiveState.lessThan = ConfigNames
        /\ \A k \in ConfigNames :
              responsiveState.lessThan[k] = (k # responsiveState.mediaType)
        /\ \A k \in ConfigNames :
              responsiveState.lessThan[k] = (reducer.mediaOrdering[k] > 0)

\* the media type of rank 0 is less than some breakpoint
C8_Witness ==
    /\ C8_Case
    /\ \E k \in ConfigNames : responsiveState.lessThan[k]

---------------------------------------------------------------------------
(* C9 *)

\* C9: in every state the reducer produces, a breakpoint whose configured
\* value is a string has false entries in lessThan, greaterThan and `is`.
C9_StringBreakpointsFalse ==
    Produced =>
        \A k \in ConfigNames :
            typeof(ConfigValue(k)) = "string" =>
                /\ state.lessThan[k] = FALSE
                /\ state.greaterThan[k] = FALSE
                /\ state.is[k] = FALSE

---------------------------------------------------------------------------
(* C10 *)

\* C10: for a reducer whose configured breakpoints are all positive numbers,
\* the order map gives the names the distinct ranks 0..n-1, and in every
\* state it produces whose mediaType is one of the names, each name k has
\* exactly one of is[k], lessThan[k], greaterThan[k] true: is[k] for
\* k = mediaType, lessThan[k] for the names ranked above mediaType,
\* greaterThan[k] for the names ranked below it.
C10_Trichotomy ==
    (reducer.created /\ PositiveNumbers) =>
        LET rank == reducer.mediaOrdering
        IN  /\ {rank[k] : k \in ConfigNames} = 0 .. Cardinality(ConfigNames) - 1
            /\ (Produced /\ state.mediaType \in ConfigNames) =>
                  \A k \in ConfigNames :
                      /\ state.is[k] = (k = state.mediaType)
                      /\ state.lessThan[k] = (rank[state.mediaType] < rank[k])
                      /\ state.greaterThan[k] = (rank[state.mediaType] > rank[k])
                      /\ Cardinality({m \in {"is", "lessThan", "greaterThan"} :
                                        state[m][k]}) = 1

\* the caller's {small: 768, large: 768}: two equal widths, and the media
\* type is one of them
C10_Witness ==
    /\ reducer.created
    /\ PositiveNumbers
    /\ arg = "config"
    /\ Produced
    /\ state.mediaType = "small"
    /\ state.lessThan["large"] \/ state.greaterThan["large"]

====
